---- MODULE Spec2Model ----
(***************************************************************************)
(* blazectl: a command-line time tracker for two activities (train,        *)
(* battle).  The model covers the session lifecycle (src/src/active.rs),   *)
(* the record store (src/src/store.rs), the command dispatch               *)
(* (src/src/main.rs) and the aggregation of the report                     *)
(* (src/src/readme.rs).                                                    *)
(*                                                                         *)
(* Time is counted in ticks of 1/TicksPerSec second since 00:00:00 UTC on  *)
(* 1 January of EpochYear.  An OffsetDateTime is a number of ticks, a      *)
(* Duration a signed number of ticks, a Date a number of days.  An RFC     *)
(* 3339 string is the record of its calendar fields, a duration string a   *)
(* sequence of characters, an Option a sequence of length 0 or 1.          *)
(***************************************************************************)
EXTENDS Integers, Sequences, FiniteSets, TLC

(* ------------------------------ bounds -------------------------------- *)

\* ticks per second (the time crate counts nanoseconds)
TicksPerSec == 2
\* the year in which the model's clock starts
EpochYear == 2024
\* the number of commands issued in a run
MaxCmds == 3

(* ------------------------- calendar and clock ------------------------- *)

SecsPerMin == 60
SecsPerHour == 3600
SecsPerDay == 24 * SecsPerHour
TicksPerDay == SecsPerDay * TicksPerSec

None == <<>>
Some(x) == <<x>>
is_some(o) == Len(o) = 1
unwrap(o) == o[1]

IsLeap(y) == (y % 4 = 0) /\ ((y % 100 # 0) \/ (y % 400 = 0))

DaysInMonth(y, m) ==
    IF m = 2 THEN (IF IsLeap(y) THEN 29 ELSE 28)
    ELSE IF m \in {4, 6, 9, 11} THEN 30 ELSE 31

\* <<year, month, day of month>> of the n-th day (n >= 0) counted from 1
\* January of year y, month m
RECURSIVE CivilFrom(_, _, _)
CivilFrom(n, y, m) ==
    IF n < DaysInMonth(y, m) THEN <<y, m, n + 1>>
    ELSE IF m = 12 THEN CivilFrom(n - DaysInMonth(y, m), y + 1, 1)
    ELSE CivilFrom(n - DaysInMonth(y, m), y, m + 1)

\* the number of days from 1 January of EpochYear to the 1st of month m of
\* year y
RECURSIVE DaysBefore(_, _)
DaysBefore(y, m) ==
    IF y = EpochYear /\ m = 1 THEN 0
    ELSE IF m = 1 THEN DaysBefore(y - 1, 12) + DaysInMonth(y - 1, 12)
    ELSE DaysBefore(y, m - 1) + DaysInMonth(y, m - 1)

\* OffsetDateTime::date()
date(dt) == dt \div TicksPerDay

\* util::iso: the RFC 3339 text of an instant, with its sub-second part
iso(dt) ==
    LET c == CivilFrom(date(dt), EpochYear, 1)
        r == dt % TicksPerDay
        s == r \div TicksPerSec
    IN  [year |-> c[1], month |-> c[2], day |-> c[3],
         hour |-> s \div SecsPerHour,
         minute |-> (s % SecsPerHour) \div SecsPerMin,
         second |-> s % SecsPerMin,
         sub |-> r % TicksPerSec]

\* a text is an RFC 3339 timestamp when every field is in its range
WellFormedIso(s) ==
    /\ s.year >= EpochYear
    /\ s.month \in 1..12
    /\ s.day >= 1 /\ s.day <= DaysInMonth(s.year, IF s.month \in 1..12 THEN s.month ELSE 1)
    /\ s.hour \in 0..23
    /\ s.minute \in 0..59
    /\ s.second \in 0..59
    /\ s.sub \in 0..(TicksPerSec - 1)

\* util::parse_iso: Ok(instant) or Err
parse_iso(s) ==
    IF WellFormedIso(s)
    THEN [ok |-> TRUE,
          val |-> (((DaysBefore(s.year, s.month) + s.day - 1) * SecsPerDay
                    + s.hour * SecsPerHour + s.minute * SecsPerMin + s.second)
                   * TicksPerSec) + s.sub]
    ELSE [ok |-> FALSE, val |-> 0]

\* Duration::whole_seconds: the seconds of a signed duration, truncated
\* toward zero
whole_seconds(d) == IF d >= 0 THEN d \div TicksPerSec ELSE -((-d) \div TicksPerSec)

\* the instant sub ticks after second sec of day number day
At(day, sec, sub) == (day * SecsPerDay + sec) * TicksPerSec + sub

\* The instants the wall clock shows: the last second of January plus one
\* tick, midnight of 1 February (less than a second later), and 01:30:00 of
\* 1 February.
Instants == { At(30, SecsPerDay - 1, 1), At(31, 0, 0), At(31, 90 * SecsPerMin, 0) }

(* --------------------------- duration text ---------------------------- *)

DigitChars == <<"0", "1", "2", "3", "4", "5", "6", "7", "8", "9">>

is_ascii_digit(ch) == \E i \in 1..Len(DigitChars) : DigitChars[i] = ch

DigitValue(ch) == (CHOOSE i \in 1..Len(DigitChars) : DigitChars[i] = ch) - 1

\* format!("{}", n) for n >= 0: the decimal digits of n
RECURSIVE Digits(_)
Digits(n) == IF n < 10 THEN <<DigitChars[n + 1]>>
             ELSE Digits(n \div 10) \o <<DigitChars[(n % 10) + 1]>>

\* num.parse::<i64>().unwrap_or(0) for a text of digits: the empty text does
\* not parse and gives 0
RECURSIVE ParseNum(_)
ParseNum(num) ==
    IF num = <<>> THEN 0
    ELSE 10 * ParseNum(SubSeq(num, 1, Len(num) - 1)) + DigitValue(num[Len(num)])

\* ser_dur_iso as a bug would have it: whole days are written as a day
\* component, "P{d}DT{h}H{m}M{s}S"
ser_dur_iso_days(d) ==
    LET ws == whole_seconds(d)
        secs == IF ws < 0 THEN 0 ELSE ws
        days == secs \div SecsPerDay
        h == (secs % SecsPerDay) \div SecsPerHour
        m == (secs % SecsPerHour) \div SecsPerMin
        s_rem == secs % SecsPerMin
    IN  (IF days > 0 THEN <<"P">> \o Digits(days) \o <<"D", "T">> ELSE <<"P", "T">>)
        \o Digits(h) \o <<"H">> \o Digits(m) \o <<"M">> \o Digits(s_rem) \o <<"S">>

\* store::ser_dur_iso: "PT{h}H{m}M{s}S" of a duration, negative ones clamped
\* to zero
ser_dur_iso(d) ==
    LET ws == whole_seconds(d)
        secs == IF ws < 0 THEN 0 ELSE ws
        h == secs \div SecsPerHour
        m == (secs % SecsPerHour) \div SecsPerMin
        s_rem == secs % SecsPerMin
    IN  <<"P", "T">> \o Digits(h) \o <<"H">> \o Digits(m) \o <<"M">>
        \o Digits(s_rem) \o <<"S">>

\* the character loop of readme::parse_duration_seconds from position i on;
\* st holds hours, mins, secs and the digits read since the last letter
RECURSIVE ParseDurLoop(_, _, _)
ParseDurLoop(s, i, st) ==
    IF i > Len(s) THEN st.hours * SecsPerHour + st.mins * SecsPerMin + st.secs
    ELSE LET ch == s[i] IN
         IF is_ascii_digit(ch)
         THEN ParseDurLoop(s, i + 1, [st EXCEPT !.num = Append(@, ch)])
         ELSE LET val == ParseNum(st.num) IN
              ParseDurLoop(s, i + 1,
                  [hours |-> IF ch = "H" THEN val ELSE st.hours,
                   mins  |-> IF ch = "M" THEN val ELSE st.mins,
                   secs  |-> IF ch = "S" THEN val ELSE st.secs,
                   num   |-> <<>>])

\* readme::parse_duration_seconds (the texts of the model hold no white
\* space, so trim() changes nothing)
parse_duration_seconds(s) ==
    IF ~(Len(s) >= 2 /\ s[1] = "P" /\ s[2] = "T") THEN 0
    ELSE ParseDurLoop(s, 3, [hours |-> 0, mins |-> 0, secs |-> 0, num |-> <<>>])

(* --------------------------- the record store ------------------------- *)

Tags == {"train", "battle"}

\* store::Entry as built by active::stop
Entry(tag, start_iso, end, dur) ==
    [activity |-> tag, start |-> start_iso, end |-> iso(end), duration |-> dur]

\* serde_json::to_string(e): the line of the log; every field is present
to_line(e) ==
    [json |-> TRUE, activity |-> Some(e.activity), start |-> Some(e.start),
     end |-> Some(e.end), duration |-> Some(ser_dur_iso(e.duration))]

\* store::month_file: the partition <<year, month>> of an instant
month_file(dt) == LET s == iso(dt) IN <<s.year, s.month>>

\* the partitions the clock of the model can name
Partitions == { month_file(t) : t \in Instants }

\* the write as a bug would have it: the line stays in a buffer that is
\* never flushed
append_line_lost(f, line) == f

\* OpenOptions::new().create(true).append(true) and write_all: the line goes
\* after the lines the partition holds
append_line(f, line) == Append(f, line)

\* append_entry as a bug would have it: the partition is that of the start
\* of the entry
append_entry_by_start(lg, e, now) ==
    [lg EXCEPT ![month_file(parse_iso(e.start).val)] = append_line(@, to_line(e))]

\* store::append_entry, given the instant now_utc() returns
append_entry(lg, e, now) ==
    [lg EXCEPT ![month_file(now)] = append_line(@, to_line(e))]

RECURSIVE SumLen(_, _)
SumLen(lg, ps) ==
    IF ps = {} THEN 0
    ELSE LET p == CHOOSE q \in ps : TRUE IN Len(lg[p]) + SumLen(lg, ps \ {p})

\* the number of lines of all partitions
TotalLines(lg) == SumLen(lg, DOMAIN lg)

\* the lines of all partitions, each with the partition that holds it
AllLines(lg) ==
    UNION { { [part |-> p, pos |-> i, line |-> lg[p][i]] : i \in 1..Len(lg[p]) } :
            p \in DOMAIN lg }

(* ----------------------------- aggregation ---------------------------- *)

unwrap_or(o, dflt) == IF is_some(o) THEN o[1] ELSE dflt

\* the empty text given to the RFC 3339 parser: no field is in its range
EmptyIso == [year |-> 0, month |-> 0, day |-> 0, hour |-> 0, minute |-> 0,
             second |-> 0, sub |-> 0]

\* Totals::default()
DefaultTotals == [train |-> 0, battle |-> 0]

\* Totals::add
add(t, tag, secs) ==
    IF tag = "train" THEN [t EXCEPT !.train = @ + secs]
    ELSE IF tag = "battle" THEN [t EXCEPT !.battle = @ + secs]
    ELSE t

\* Totals::total
total(t) == t.train + t.battle

\* per_day.entry(d).or_default().add(activity, secs)
entry_add(per_day, d, activity, secs) ==
    IF d \in DOMAIN per_day
    THEN [per_day EXCEPT ![d] = add(@, activity, secs)]
    ELSE per_day @@ (d :> add(DefaultTotals, activity, secs))

\* per_day.get(d).copied().unwrap_or_default()
get_or_default(per_day, d) == IF d \in DOMAIN per_day THEN per_day[d] ELSE DefaultTotals

\* the state of the loop of render_all before any entry is read
EmptyAgg == [all_time |-> DefaultTotals, per_day |-> <<>>]

\* the loop as a bug would have it: the entry is counted for the date of its
\* end
absorb_by_end(agg, v) ==
    LET activity == unwrap_or(v.activity, "")
        end_iso == unwrap_or(v.end, EmptyIso)
        dur_secs == parse_duration_seconds(unwrap_or(v.duration, <<"P", "T", "0", "S">>))
        en == parse_iso(end_iso)
    IN  [all_time |-> add(agg.all_time, activity, dur_secs),
         per_day |-> IF en.ok
                     THEN entry_add(agg.per_day, date(en.val), activity, dur_secs)
                     ELSE agg.per_day]

\* one turn of the loop of render_all over the entries: entry v is added to
\* the all-time totals and, when its start parses, to the totals of the date
\* of its start (the store writes UTC timestamps, so that is the UTC date)
absorb(agg, v) ==
    LET activity == unwrap_or(v.activity, "")
        start_iso == unwrap_or(v.start, EmptyIso)
        dur_secs == parse_duration_seconds(unwrap_or(v.duration, <<"P", "T", "0", "S">>))
        st == parse_iso(start_iso)
    IN  [all_time |-> add(agg.all_time, activity, dur_secs),
         per_day |-> IF st.ok
                     THEN entry_add(agg.per_day, date(st.val), activity, dur_secs)
                     ELSE agg.per_day]

\* the loop of render_all over a sequence of entries
RECURSIVE aggregate(_, _)
aggregate(agg, entries) ==
    IF entries = <<>> THEN agg
    ELSE aggregate(absorb(agg, Head(entries)), Tail(entries))

\* the lines of one partition that parse as JSON, in the order of the file
json_lines(f) == SelectSeq(f, LAMBDA l : l.json)

\* readme::read_all_entries, with the partitions in the order read_dir
\* yields them (order is a sequence of partition names)
RECURSIVE read_all_entries(_, _)
read_all_entries(lg, order) ==
    IF order = <<>> THEN <<>>
    ELSE json_lines(lg[Head(order)]) \o read_all_entries(lg, Tail(order))

\* readme::days_back: the n dates ending today, oldest first
days_back(today, n) == [i \in 1..n |-> today - (n - i)]

\* readme::sum_over
RECURSIVE sum_over(_, _)
sum_over(per_day, days) ==
    IF days = <<>> THEN DefaultTotals
    ELSE LET r == sum_over(per_day, Tail(days))
             x == get_or_default(per_day, Head(days))
         IN  [train |-> r.train + x.train, battle |-> r.battle + x.battle]

Last7 == 7
Last30 == 30

\* the number of leap years before year y, up to a constant
LeapsBefore(y) == ((y - 1) \div 4) - ((y - 1) \div 100) + ((y - 1) \div 400)

\* Date::MIN, 1 January of year -9999, as a number of days
DateMin == -(365 * (EpochYear + 9999) + LeapsBefore(EpochYear) - LeapsBefore(-9999))

\* Date::previous_day: None for Date::MIN
previous_day(d) == IF d = DateMin THEN None ELSE Some(d - 1)

\* the three closures render_all hands to streak_days, by name
StreakKinds == {"any", "train", "battle"}

\* pred(&t) for the closure named kind
pred(kind, t) ==
    CASE kind = "any" -> total(t) > 0
      [] kind = "train" -> t.train > 0
      [] kind = "battle" -> t.battle > 0

\* the count at which streak_days leaves its loop
StreakCap == 365

\* the locals of streak_days before the first turn of its loop; done says
\* that the loop has been left
StreakStart(end_day) == [d |-> end_day, count |-> 0, done |-> FALSE]

\* one turn of the loop of streak_days: the day d is counted if it satisfies
\* the closure, and the loop is left at the first day that does not, at
\* Date::MIN, or once the count, after the day has been counted, is more
\* than StreakCap
StreakTurn(per_day, kind, st) ==
    LET t == get_or_default(per_day, st.d) IN
    IF ~pred(kind, t) THEN [st EXCEPT !.done = TRUE]
    ELSE LET prev == previous_day(st.d) IN
         IF ~is_some(prev) THEN [st EXCEPT !.count = @ + 1, !.done = TRUE]
         ELSE [d |-> unwrap(prev), count |-> st.count + 1,
               done |-> st.count + 1 > StreakCap]

\* up to n turns of the loop, none once it has been left; they are made as
\* two halves, the locals after the first half being computed before the
\* second half begins, so that the evaluation does not nest n deep
RECURSIVE StreakTurns(_, _, _, _)
StreakTurns(per_day, kind, st, n) ==
    IF n = 0 \/ st.done THEN st
    ELSE IF n = 1 THEN StreakTurn(per_day, kind, st)
    ELSE CHOOSE r \in { StreakTurns(per_day, kind, mid, n - (n \div 2)) :
                           mid \in { StreakTurns(per_day, kind, st, n \div 2) } } : TRUE

\* streak_days as a bug would have it: the walk starts at the day before
\* end_day
streak_days_from_yesterday(per_day, end_day, kind) ==
    StreakTurns(per_day, kind, StreakStart(end_day - 1), StreakCap + 1).count

\* readme::streak_days: the count when the loop is left, which it is within
\* StreakCap + 1 turns, every turn that does not leave it counting a day
streak_days(per_day, end_day, kind) ==
    StreakTurns(per_day, kind, StreakStart(end_day), StreakCap + 1).count

\* the three streaks render_all computes
streaks(per_day, today) == [k \in StreakKinds |-> streak_days(per_day, today, k)]

\* readme::hm: "{h}h {m:02}m", as the pair of its two numbers
hm(secs) == <<secs \div SecsPerHour, (secs % SecsPerHour) \div SecsPerMin>>

\* readme::render_md: the figures of the report, for the instant now, the
\* all-time totals, the per-tag sums of the last 30 days and the rows of the
\* last 7 days
render_md(now, all_time, last30_tag, daily7) ==
    [updated |-> iso(now),
     all_time |-> [total |-> hm(total(all_time)), train |-> hm(all_time.train),
                   battle |-> hm(all_time.battle)],
     last30 |-> [train |-> hm(last30_tag.train), battle |-> hm(last30_tag.battle)],
     daily |-> [i \in DOMAIN daily7 |->
                  [date |-> daily7[i][1], train |-> hm(daily7[i][2].train),
                   battle |-> hm(daily7[i][2].battle),
                   total |-> hm(total(daily7[i][2]))]]]

\* what render_all computes from the entries read at the instant now: the
\* state of its loop, the window sums and the text of the report
report(entries, now) ==
    LET agg == aggregate(EmptyAgg, entries)
        today == date(now)
        last7_dates == days_back(today, Last7)
        last30_dates == days_back(today, Last30)
        daily7 == [i \in DOMAIN last7_dates |->
                     <<last7_dates[i], get_or_default(agg.per_day, last7_dates[i])>>]
    IN  [all_time |-> agg.all_time,
         per_day |-> agg.per_day,
         last7_tot |-> sum_over(agg.per_day, last7_dates),
         last30_tot |-> sum_over(agg.per_day, last30_dates),
         streaks |-> streaks(agg.per_day, today),
         out |-> render_md(now, agg.all_time, sum_over(agg.per_day, last30_dates), daily7)]

\* the orders in which read_dir can yield the partitions ps
Orders(ps) ==
    { o \in [1..Cardinality(ps) -> ps] : \A i, j \in DOMAIN o : i # j => o[i] # o[j] }

(* ------------------------- the active-state file ---------------------- *)

\* Active::default()
DefaultActive == [train |-> None, battle |-> None]

\* a file of the store directory that does not exist
AbsentFile == [state |-> "absent", data |-> DefaultActive]

\* a file holding serde_json::to_string_pretty(a) in full
FullFile(a) == [state |-> "full", data |-> a]

\* active::path
path == "active.json"

\* the temporary file active::save writes before the rename
save_tmp_direct == "active.json"
save_tmp == "active.json.tmp"

FileNames == {"active.json", "active.json.tmp"}

\* active::load on the file f: no file and an empty file give the default
\* state, a cut text does not parse
load(f) ==
    IF f.state \in {"absent", "empty"} THEN [ok |-> TRUE, a |-> DefaultActive]
    ELSE IF f.state = "full" THEN [ok |-> TRUE, a |-> f.data]
    ELSE [ok |-> FALSE, a |-> DefaultActive]

\* fs::rename(from, to) on the files fl
rename(fl, from, to) ==
    IF from = to THEN fl
    ELSE [fl EXCEPT ![to] = fl[from], ![from] = AbsentFile]

(* --------------------------- session lifecycle ------------------------ *)

\* start as a bug would have it: the running session is started again
start_restart(a, tag, now) ==
    IF tag \notin Tags THEN [ret |-> "err", a |-> a]
    ELSE [ret |-> "save", a |-> [a EXCEPT ![tag] = Some(now)]]

\* start as a bug would have it: the other tag is stopped
start_autostop(a, tag, now) ==
    IF tag \notin Tags THEN [ret |-> "err", a |-> a]
    ELSE IF is_some(a[tag]) THEN [ret |-> "already", a |-> a]
    ELSE [ret |-> "save", a |-> [DefaultActive EXCEPT ![tag] = Some(now)]]

\* the match of active::start on the loaded state a: the tag is unknown,
\* already running, or set to now and to be saved
start_match(a, tag, now) ==
    IF tag \notin Tags THEN [ret |-> "err", a |-> a]
    ELSE IF is_some(a[tag]) THEN [ret |-> "already", a |-> a]
    ELSE [ret |-> "save", a |-> [a EXCEPT ![tag] = Some(now)]]

\* stop as a bug would have it: a stop of an IDLE tag is an error
stop_idle_error(a, tag) ==
    IF tag \notin Tags \/ ~is_some(a[tag]) THEN [ret |-> "err", start_opt |-> None, a |-> a]
    ELSE [ret |-> "save", start_opt |-> a[tag], a |-> [a EXCEPT ![tag] = None]]

\* stop as a bug would have it: the start is read but not taken
stop_keep(a, tag) ==
    IF tag \notin Tags THEN [ret |-> "err", start_opt |-> None, a |-> a]
    ELSE [ret |-> IF is_some(a[tag]) THEN "save" ELSE "none",
          start_opt |-> a[tag], a |-> a]

\* the match of active::stop on the loaded state a: the tag is unknown, or
\* its start is taken out of a
stop_match(a, tag) ==
    IF tag \notin Tags THEN [ret |-> "err", start_opt |-> None, a |-> a]
    ELSE [ret |-> IF is_some(a[tag]) THEN "save" ELSE "none",
          start_opt |-> a[tag], a |-> [a EXCEPT ![tag] = None]]

\* the entry as a bug would have it: the duration is not end - start
stop_entry_swapped(tag, start_iso, start, end) == Entry(tag, start_iso, end, start - end)

\* the entry active::stop returns for the parsed start and the end
stop_entry(tag, start_iso, start, end) == Entry(tag, start_iso, end, end - start)

(* ------------------------------- state -------------------------------- *)

VARIABLES
    clock,    \* the instant the last call of now_utc() returned
    files,    \* .blaze/active.json and .blaze/active.json.tmp
    logs,     \* the lines of each partition .blaze/track-<year>-<month>.jsonl
    svg,      \* assets/activity.svg has been written
    readme,   \* README.md: None, or the figures of the report it holds
    proc,     \* the running invocation of blazectl: position and locals
    last,     \* how the invocation ended, once it has: exit code and text printed
    ncmds     \* the number of commands issued so far

vars == <<clock, files, logs, svg, readme, proc, last, ncmds>>

\* the tags given on the command line
TagInputs == Tags \cup {"swim"}

\* no invocation is running
IdleProc ==
    [pc |-> "idle", cmd |-> "", tag |-> "", a |-> DefaultActive,
     start_opt |-> None, end |-> 0, entry |-> None, found |-> FALSE,
     rep |-> None, warn |-> "", lines0 |-> 0, file0 |-> AbsentFile]

NoCommand == [code |-> -1, out |-> ""]

Init ==
    /\ clock = CHOOSE t \in Instants : \A u \in Instants : t <= u
    /\ files = [n \in FileNames |-> AbsentFile]
    /\ logs = [p \in Partitions |-> <<>>]
    /\ svg = FALSE
    /\ readme = None
    /\ proc = IdleProc
    /\ last = NoCommand
    /\ ncmds = 0

\* the invocation ends with exit code code after printing out
Exit(code, out) ==
    /\ proc' = IdleProc
    /\ last' = [code |-> code, out |-> out]

\* the tag is RUNNING in the state file
Running(tag) == load(files[path]).ok /\ is_some(load(files[path]).a[tag])

(* ------------------------------ commands ------------------------------ *)

Commands == {"start", "stop", "status", "render-readme"}

\* the arm of the match of main that a command runs
FirstPc(cmd) ==
    CASE cmd = "start" -> "start_call"
      [] cmd = "stop" -> "stop_call"
      [] cmd = "status" -> "status_call"
      [] cmd = "render-readme" -> "render_all"

\* main: the command line is parsed and .blaze is ensured to exist.  lines0
\* remembers how many lines the log holds when the command begins, file0
\* what the state file holds then.
Invoke(cmd, tag) ==
    /\ proc.pc = "idle"
    /\ ncmds < MaxCmds
    /\ ncmds' = ncmds + 1
    /\ proc' = [IdleProc EXCEPT !.pc = FirstPc(cmd), !.cmd = cmd, !.tag = tag,
                                !.lines0 = TotalLines(logs), !.file0 = files[path]]
    /\ last' = NoCommand
    /\ UNCHANGED <<clock, files, logs, svg, readme>>

\* util::now_utc: the wall clock is read.  It shows any of the instants,
\* later than the last reading or, when it has been set back, earlier.
now_utc(t) == t \in Instants /\ clock' = t

\* active::start up to its call of save
StartCall ==
    /\ proc.pc = "start_call"
    /\ LET l == load(files[path]) IN
       IF ~l.ok THEN Exit(1, "start error") /\ UNCHANGED clock
       ELSE /\ \E t \in Instants : now_utc(t)
            /\ LET m == start_match(l.a, proc.tag, iso(clock')) IN
               IF m.ret = "err" THEN Exit(1, "start error")
               ELSE IF m.ret = "already" THEN Exit(0, "Already running")
               ELSE /\ proc' = [proc EXCEPT !.pc = "save_open", !.a = m.a]
                    /\ UNCHANGED last
    /\ UNCHANGED <<files, logs, svg, readme, ncmds>>

\* active::save, fs::write: the temporary file is created or truncated
SaveOpen ==
    /\ proc.pc = "save_open"
    /\ files' = [files EXCEPT ![save_tmp] = [state |-> "empty", data |-> DefaultActive]]
    /\ proc' = [proc EXCEPT !.pc = "save_write"]
    /\ UNCHANGED <<clock, logs, svg, readme, last, ncmds>>

\* active::save, fs::write: the text of the state is written
SaveWriteAll ==
    /\ proc.pc = "save_write"
    /\ files' = [files EXCEPT ![save_tmp] = FullFile(proc.a)]
    /\ proc' = [proc EXCEPT !.pc = "save_rename"]
    /\ UNCHANGED <<clock, logs, svg, readme, last, ncmds>>

\* active::save, fs::rename; start then returns to main, which exits, and
\* stop goes on to build its entry
SaveRename ==
    /\ proc.pc = "save_rename"
    /\ files' = rename(files, save_tmp, path)
    /\ IF proc.cmd = "start" THEN Exit(0, "")
       ELSE /\ proc' = [proc EXCEPT !.pc = "stop_entry"]
            /\ UNCHANGED last
    /\ UNCHANGED <<clock, logs, svg, readme, ncmds>>

\* active::stop up to its call of save
StopCall ==
    /\ proc.pc = "stop_call"
    /\ LET l == load(files[path]) IN
       IF ~l.ok THEN Exit(1, "stop error") /\ UNCHANGED clock
       ELSE /\ \E t \in Instants : now_utc(t)
            /\ LET m == stop_match(l.a, proc.tag) IN
               IF m.ret = "err" THEN Exit(1, "stop error")
               ELSE IF m.ret = "none" THEN Exit(0, "No active session")
               ELSE /\ proc' = [proc EXCEPT !.pc = "save_open", !.a = m.a,
                                            !.start_opt = m.start_opt, !.end = clock',
                                            !.found = TRUE]
                    /\ UNCHANGED last
    /\ UNCHANGED <<files, logs, svg, readme, ncmds>>

\* active::stop after save: the stored start is parsed and the entry built
StopEntry ==
    /\ proc.pc = "stop_entry"
    /\ LET start_iso == unwrap(proc.start_opt)
           st == parse_iso(start_iso)
       IN  IF ~st.ok THEN Exit(1, "stop error")
           ELSE /\ proc' = [proc EXCEPT
                              !.pc = "append",
                              !.entry = Some(stop_entry(proc.tag, start_iso, st.val, proc.end))]
                /\ UNCHANGED last
    /\ UNCHANGED <<clock, files, logs, svg, readme, ncmds>>

\* main, Ok(Some(entry)): store::append_entry
AppendEntry ==
    /\ proc.pc = "append"
    /\ \E t \in Instants : now_utc(t)
    /\ logs' = append_entry(logs, unwrap(proc.entry), clock')
    /\ proc' = [proc EXCEPT !.pc = "render_all", !.entry = None]
    /\ UNCHANGED <<files, svg, readme, last, ncmds>>

\* readme::render_all up to the chart: the entries are read and aggregated
\* and the chart is written, or cannot be.  On the error render_all returns
\* before the report is written: render-readme prints the error and exits 1,
\* stop prints it as a warning and goes on to the commit.
RenderAll ==
    /\ proc.pc = "render_all"
    /\ \E t \in Instants : now_utc(t)
    /\ \E order \in Orders(DOMAIN logs), chart_ok \in BOOLEAN :
         LET entries == read_all_entries(logs, order) IN
         IF chart_ok
         THEN /\ svg' = TRUE
              /\ proc' = [proc EXCEPT !.pc = "write_readme",
                                      !.rep = Some(report(entries, clock'))]
              /\ UNCHANGED last
         ELSE /\ svg' = svg
              /\ IF proc.cmd = "stop"
                 THEN /\ proc' = [proc EXCEPT !.pc = "commit", !.warn = "readme error"]
                      /\ UNCHANGED last
                 ELSE Exit(1, "readme error")
    /\ UNCHANGED <<files, logs, readme, ncmds>>

\* readme::render_all: fs::write("README.md", out)
WriteReadme ==
    /\ proc.pc = "write_readme"
    /\ readme' = Some(unwrap(proc.rep).out)
    /\ IF proc.cmd = "stop"
       THEN proc' = [proc EXCEPT !.pc = "commit"] /\ UNCHANGED last
       ELSE Exit(0, "")
    /\ UNCHANGED <<clock, files, logs, svg, ncmds>>

\* main: gitops::auto_commit_if_due.  The exit statuses of the git commands
\* are dropped, so the result is Ok whether git has committed or failed, and
\* main returns: the exit code is 0 and what was printed is the warning of
\* render_all, if any.
AutoCommit ==
    /\ proc.pc = "commit"
    /\ \E git_ok \in BOOLEAN : Exit(0, proc.warn)
    /\ UNCHANGED <<clock, files, logs, svg, readme, ncmds>>

\* active::status and the arm of main that prints it
StatusCall ==
    /\ proc.pc = "status_call"
    /\ LET l == load(files[path]) IN
       IF ~l.ok THEN Exit(1, "status error")
       ELSE IF is_some(l.a.train) THEN Exit(0, "Active: train")
       ELSE IF is_some(l.a.battle) THEN Exit(0, "Active: battle")
       ELSE Exit(0, "No active session.")
    /\ UNCHANGED <<clock, files, logs, svg, readme, ncmds>>

\* the process is killed; a write of the temporary file that was under way
\* may have been cut
Crash ==
    /\ proc.pc # "idle"
    /\ proc' = IdleProc
    /\ last' = [code |-> 137, out |-> "killed"]
    /\ IF proc.pc = "save_write"
       THEN \E st \in {"empty", "partial"} :
              files' = [files EXCEPT ![save_tmp] = [state |-> st, data |-> DefaultActive]]
       ELSE files' = files
    /\ UNCHANGED <<clock, logs, svg, readme, ncmds>>

Next ==
    \/ \E tag \in TagInputs : Invoke("start", tag)
    \/ \E tag \in TagInputs : Invoke("stop", tag)
    \/ Invoke("status", "")
    \/ Invoke("render-readme", "")
    \/ StartCall
    \/ SaveOpen
    \/ SaveWriteAll
    \/ SaveRename
    \/ StopCall
    \/ StopEntry
    \/ AppendEntry
    \/ RenderAll
    \/ WriteReadme
    \/ AutoCommit
    \/ StatusCall

Spec == Init /\ [][Next]_vars

NextCrash == Next \/ Crash

SpecCrash == Init /\ [][NextCrash]_vars

(* ------------------------------ properties ---------------------------- *)

Other(tag) == IF tag = "train" THEN "battle" ELSE "train"

\* the state active::load reads from the state file
Stored == load(files[path]).a

IsPrefix(s, t) == Len(s) <= Len(t) /\ SubSeq(t, 1, Len(s)) = s

\* the step is one of the running invocation, not a stuttering step
ProcStep == proc' # proc

\* the lines the step adds to the log
Added == { r \in AllLines(logs') : r.pos > Len(logs[r.part]) }

Max0(n) == IF n < 0 THEN 0 ELSE n

\* C1: start(tag) of a tag that is RUNNING succeeds (exit 0, "Already
\* running") and leaves the state file, so the start times of both tags, as
\* it was.
C1_StartIdempotent ==
    [][ (proc.pc = "start_call" /\ ProcStep /\ proc.tag \in Tags /\ Running(proc.tag))
        => /\ files' = files
           /\ proc'.pc = "idle"
           /\ last' = [code |-> 0, out |-> "Already running"] ]_vars

\* a second start of battle has ended and battle is still running
C1_Witness ==
    /\ proc.pc = "idle"
    /\ last = [code |-> 0, out |-> "Already running"]
    /\ Running("battle")

\* C2: stop(tag) of a valid tag that is IDLE ends with exit 0 after printing
\* "No active session", appends nothing to any partition and leaves the
\* state file as it was.
C2_StopIdle ==
    [][ (proc.pc = "stop_call" /\ ProcStep /\ proc.tag \in Tags
           /\ load(files[path]).ok /\ ~Running(proc.tag))
        => /\ last' = [code |-> 0, out |-> "No active session"]
           /\ proc'.pc = "idle"
           /\ logs' = logs
           /\ files' = files ]_vars

\* a stop of a tag that had been stopped before has ended: the log holds the
\* record of the first stop only
C2_Witness ==
    /\ proc.pc = "idle"
    /\ last = [code |-> 0, out |-> "No active session"]
    /\ TotalLines(logs) = 1
    /\ ncmds = 3

\* C3: whenever a record is appended to the log, with the process killed at
\* any point or not, the state file is complete and no longer holds the tag
\* of the record as RUNNING: the cleared state is on disk before the record
\* is, so no session is both active in the state file and in the log.
C3_ClearedBeforeAppend ==
    [][ \A r \in Added :
          /\ load(files[path]).ok
          /\ ~Running(unwrap(r.line.activity))
          /\ files' = files ]_vars

\* the process was killed between save and append_entry: the session is
\* neither active nor logged
C3_Witness ==
    /\ last.out = "killed"
    /\ ncmds = 2
    /\ files[path] = FullFile(DefaultActive)
    /\ TotalLines(logs) = 0

\* the seconds of a duration text of the log
LineSecs(l) == parse_duration_seconds(unwrap(l.duration))

\* C4 as stated: every record has a duration equal to the whole seconds of
\* end - start, and that is >= 0.
C4_Original ==
    \A r \in AllLines(logs) :
        /\ LineSecs(r.line) =
              whole_seconds(parse_iso(unwrap(r.line.end)).val
                            - parse_iso(unwrap(r.line.start)).val)
        /\ LineSecs(r.line) >= 0

\* C4 amended: stop(tag) of a RUNNING tag takes the start stored in the state
\* file and the clock as the end, and the record it appends has the tag as
\* activity, that start, that end, and as duration the whole seconds of
\* end - start (fractions of a second counted in the difference, then
\* dropped), or 0 when the end is before the start.
C4_StopRecord ==
    [][ /\ (proc.pc = "stop_call" /\ proc'.pc = "save_open")
           => /\ proc'.start_opt = Stored[proc.tag]
              /\ proc'.end = clock'
        /\ \A r \in Added :
              /\ r.line.activity = Some(proc.tag)
              /\ r.line.start = proc.start_opt
              /\ r.line.end = Some(iso(proc.end))
              /\ LineSecs(r.line) =
                    Max0(whole_seconds(proc.end - parse_iso(unwrap(proc.start_opt)).val))
              /\ LineSecs(r.line) >= 0 ]_vars

\* a train session of an hour and a half is in the log
C4_Witness ==
    \E r \in AllLines(logs) :
        /\ r.line.activity = Some("train")
        /\ r.line.duration = Some(<<"P", "T", "1", "H", "3", "0", "M", "0", "S">>)
        /\ parse_iso(unwrap(r.line.end)).val - parse_iso(unwrap(r.line.start)).val
             = 90 * SecsPerMin * TicksPerSec

\* C5 as stated: every record is in the partition of the month of its start.
C5_Original ==
    \A r \in AllLines(logs) : r.part = month_file(parse_iso(unwrap(r.line.start)).val)

\* C5 amended: a record is appended to the partition of the UTC year and
\* month the clock shows when append_entry reads it, and to no other; that
\* is the month of the start only if the clock is still in that month.
C5_PartitionOfNow ==
    [][ /\ \A r \in Added : proc.pc = "append" /\ r.part = month_file(clock')
        /\ \A p \in DOMAIN logs : p # month_file(clock') => logs'[p] = logs[p] ]_vars

\* a session that started in January and ended in February is in the
\* partition of February
C5_Witness ==
    \E r \in AllLines(logs) :
        /\ month_file(parse_iso(unwrap(r.line.start)).val) = <<EpochYear, 1>>
        /\ month_file(parse_iso(unwrap(r.line.end)).val) = <<EpochYear, 2>>
        /\ r.part = <<EpochYear, 2>>

C7_SaveAtomic ==
    /\ [](files[path].state \in {"absent", "full"})
    /\ [][ files'[path] # files[path]
           => (proc.pc = "save_rename" /\ files'[path] = FullFile(proc.a)) ]_vars

\* the process was killed while it wrote the temporary file: the state file
\* still holds the previous state, train RUNNING
C7_Witness ==
    /\ last.out = "killed"
    /\ files[save_tmp].state = "partial"
    /\ files[path].state = "full"
    /\ is_some(files[path].data.train)

MaxLines == 2

\* the records the store writes for sessions between two instants
SessionLines ==
    { to_line(stop_entry(x[1], iso(x[2]), x[2], x[3])) :
      x \in { y \in Tags \X Instants \X Instants : y[3] > y[2] } }

\* a line that is not JSON
NotJsonLine ==
    [json |-> FALSE, activity |-> None, start |-> None, end |-> None, duration |-> None]

\* a record whose start is no timestamp (month 13), its duration intact
BadStartLine ==
    [json |-> TRUE, activity |-> Some("train"),
     start |-> Some([year |-> EpochYear, month |-> 13, day |-> 1, hour |-> 0,
                     minute |-> 0, second |-> 0, sub |-> 0]),
     end |-> Some(iso(At(31, 90 * SecsPerMin, 0))),
     duration |-> Some(<<"P", "T", "1", "H", "3", "0", "M", "0", "S">>)]

\* a record whose duration text is cut after "PT1H30"
BadDurationLine ==
    [json |-> TRUE, activity |-> Some("battle"),
     start |-> Some(iso(At(31, 0, 0))),
     end |-> Some(iso(At(31, 90 * SecsPerMin, 0))),
     duration |-> Some(<<"P", "T", "1", "H", "3", "0">>)]

\* a JSON object with the activity alone
OnlyActivityLine ==
    [json |-> TRUE, activity |-> Some("train"), start |-> None, end |-> None,
     duration |-> None]

MalformedLines == {NotJsonLine, BadStartLine, BadDurationLine, OnlyActivityLine}

\* the store directory holding the lines of placed, a sequence of
\* <<partition, line>>, each partition in the order of placed
StoreOf(placed) ==
    [p \in Partitions |->
        LET mine == SelectSeq(placed, LAMBDA x : x[1] = p)
        IN  [i \in 1..Len(mine) |-> mine[i][2]]]

\* render-readme has been issued on a store directory of at most MaxLines
\* lines, written by the store or not
InitAgg ==
    /\ clock = CHOOSE t \in Instants : \A u \in Instants : t <= u
    /\ files = [n \in FileNames |-> AbsentFile]
    /\ \E n \in 0..MaxLines :
         \E placed \in [1..n -> Partitions \X (SessionLines \cup MalformedLines)] :
            logs = StoreOf(placed)
    /\ svg = FALSE
    /\ readme = None
    /\ proc = [IdleProc EXCEPT !.pc = FirstPc("render-readme"), !.cmd = "render-readme",
                               !.lines0 = TotalLines(logs)]
    /\ last = NoCommand
    /\ ncmds = 1

NextAgg == RenderAll \/ WriteReadme

SpecAgg == InitAgg /\ [][NextAgg]_vars

\* render_all has read and aggregated the entries and holds the result
Aggregated == proc.pc = "write_readme"

\* the seconds of the session of a record: the whole seconds of end - start,
\* 0 if negative
SessionSecs(l) ==
    Max0(whole_seconds(parse_iso(unwrap(l.end)).val - parse_iso(unwrap(l.start)).val))

RECURSIVE SumSecs(_)
SumSecs(rs) ==
    IF rs = {} THEN 0
    ELSE LET r == CHOOSE x \in rs : TRUE IN SessionSecs(r.line) + SumSecs(rs \ {r})

\* the seconds of the sessions of tag that started on UTC date d
DaySecs(lg, tag, d) ==
    SumSecs({ r \in AllLines(lg) :
                /\ r.line.activity = Some(tag)
                /\ date(parse_iso(unwrap(r.line.start)).val) = d })

\* the dates on which a line of the model can start or end
ModelDates == { date(t) : t \in Instants }

\* C9: when the store holds session records only, whatever the order in
\* which the partitions are read, the per-day total of each tag on each date
\* is the sum of the seconds of the sessions of that tag that started on that
\* date (a session that ends on the next day counts for its start day), and
\* no other date has totals.
C9_PerDayTotals ==
    (Aggregated /\ \A r \in AllLines(logs) : r.line \in SessionLines)
    => LET per_day == unwrap(proc.rep).per_day IN
       /\ DOMAIN per_day \subseteq ModelDates
       /\ \A d \in ModelDates, tag \in Tags :
             get_or_default(per_day, d)[tag] = DaySecs(logs, tag, d)

\* two train sessions from 23:59:59 of 31 January to 01:30:00 of 1 February,
\* one in each partition, are both counted for 31 January alone
C9_Witness ==
    /\ Aggregated
    /\ \A p \in DOMAIN logs : Len(logs[p]) = 1
    /\ \A r \in AllLines(logs) : r.line \in SessionLines
    /\ unwrap(proc.rep).per_day = (30 :> [train |-> 180 * SecsPerMin, battle |-> 0])

\* the shape "PT<digits>H<digits>M<digits>S" of the text s from position i
\* on, with the unit letters still to come and the digits read since the last
RECURSIVE DurShape(_, _, _, _)
DurShape(s, i, units, ndigits) ==
    IF i > Len(s) THEN units = <<>> /\ ndigits = 0
    ELSE IF units = <<>> THEN FALSE
    ELSE IF is_ascii_digit(s[i]) THEN DurShape(s, i + 1, units, ndigits + 1)
    ELSE s[i] = Head(units) /\ ndigits > 0 /\ DurShape(s, i + 1, Tail(units), 0)

IsDurText(s) ==
    Len(s) >= 2 /\ s[1] = "P" /\ s[2] = "T" /\ DurShape(s, 3, <<"H", "M", "S">>, 0)

\* the line is JSON and its start and its duration are well formed
WellFormedLine(l) ==
    /\ l.json
    /\ is_some(l.start) /\ parse_iso(unwrap(l.start)).ok
    /\ is_some(l.duration) /\ IsDurText(unwrap(l.duration))

\* the store without its malformed lines
CleanStore(lg) == [p \in DOMAIN lg |-> SelectSeq(lg[p], WellFormedLine)]

\* C10 as stated: the all-time totals, the per-day totals and the window sums
\* render_all computes are those of the store without its malformed lines.
C10_Original ==
    Aggregated =>
      \A order \in Orders(DOMAIN logs) :
        LET got == unwrap(proc.rep)
            ref == report(read_all_entries(CleanStore(logs), order), clock)
        IN  /\ got.all_time = ref.all_time
            /\ \A d \in ModelDates :
                  get_or_default(got.per_day, d) = get_or_default(ref.per_day, d)
            /\ got.last7_tot = ref.last7_tot
            /\ got.last30_tot = ref.last30_tot

(* --------------------------- best-effort steps ------------------------ *)

\* the running invocation ends with this step
Ends == proc.pc # "idle" /\ proc'.pc = "idle"

\* the running invocation is one that renders the report: render-readme, or
\* a stop that has appended its record
Renders == proc.cmd = "render-readme" \/ (proc.cmd = "stop" /\ proc.pc = "commit")

\* C11 as stated: a command that renders the report ends with exit code 0
\* and with README.md holding the report it has computed, whether or not the
\* chart could be written and whether or not git has committed.
C11_Original ==
    [][ (Ends /\ Renders)
        => /\ last'.code = 0
           /\ is_some(proc.rep)
           /\ readme' = Some(unwrap(proc.rep).out) ]_vars

(* ------------------------ duration round trip ------------------------- *)

\* the longest session, in hours without its minutes and seconds
MaxHours == 25

\* the minutes and the seconds of the sessions: one and two digits, the ends
\* of the range
MinuteInputs == {0, 1, 30, 59}
SecondInputs == {0, 9, 59}

\* the durations end - start of the sessions, in ticks: every number of
\* hours up to MaxHours with the minutes, seconds and fractions above, and
\* two negative ones (the clock set back by a tick, and by an hour)
DurInputs ==
    { ((h * SecsPerHour + m * SecsPerMin + sc) * TicksPerSec) + sub :
        h \in 0..MaxHours, m \in MinuteInputs, sc \in SecondInputs,
        sub \in 0..(TicksPerSec - 1) }
    \cup { -1, -(SecsPerHour * TicksPerSec) }

\* the instant at which the sessions start: 1 February, 01:30:00
DurStart == At(31, 90 * SecsPerMin, 0)

\* stop(tag) has taken the start of a session of one of the durations out of
\* the state file and saved the cleared state; the log is empty
InitDur ==
    /\ clock \in Instants
    /\ files = [n \in FileNames |-> IF n = path THEN FullFile(DefaultActive) ELSE AbsentFile]
    /\ logs = [p \in Partitions |-> <<>>]
    /\ svg = FALSE
    /\ readme = None
    /\ \E tag \in Tags, d \in DurInputs :
         proc = [IdleProc EXCEPT !.pc = "stop_entry", !.cmd = "stop", !.tag = tag,
                                 !.start_opt = Some(iso(DurStart)),
                                 !.end = DurStart + d, !.found = TRUE]
    /\ last = NoCommand
    /\ ncmds = 1

NextDur == StopEntry \/ AppendEntry \/ RenderAll \/ WriteReadme \/ AutoCommit

SpecDur == InitDur /\ [][NextDur]_vars

\* C12: the record appended for a duration of s >= 0 whole seconds has a
\* duration text of the shape "PT<h>H<m>M<s>S" (hours not folded into days)
\* that parse_duration_seconds reads as exactly s; and the aggregation that
\* then reads the log has s as the all-time seconds of the tag, which the
\* report shows as s / 3600 hours and (s % 3600) / 60 minutes.
C12_DurationRoundTrip ==
    [][ /\ \A r \in Added :
              LET d == unwrap(proc.entry).duration IN
              d >= 0 =>
                /\ IsDurText(unwrap(r.line.duration))
                /\ LineSecs(r.line) = d \div TicksPerSec
        /\ (proc.pc = "render_all" /\ proc'.pc = "write_readme"
               /\ proc.end >= DurStart /\ TotalLines(logs) = 1)
           => LET secs == (proc.end - DurStart) \div TicksPerSec
                  got == unwrap(proc'.rep)
              IN  /\ got.all_time = add(DefaultTotals, proc.tag, secs)
                  /\ got.out.all_time[proc.tag]
                       = <<secs \div SecsPerHour, (secs % SecsPerHour) \div SecsPerMin>> ]_vars

\* a train session of 1h30m is in the log as "PT1H30M0S" and in the report as
\* 1h 30m of train and 0h 00m of battle
C12_Witness ==
    /\ \E r \in AllLines(logs) :
          /\ r.line.activity = Some("train")
          /\ r.line.duration = Some(<<"P", "T", "1", "H", "3", "0", "M", "0", "S">>)
          /\ LineSecs(r.line) = 90 * SecsPerMin
    /\ is_some(readme)
    /\ unwrap(readme).all_time.train = <<1, 30>>
    /\ unwrap(readme).all_time.battle = <<0, 0>>

(* ------------------------------- streaks ------------------------------ *)

\* the number of days, ending today, that a drawn history fills day by day
StreakWindow == 5

\* the longest run of consecutive active days of a drawn history
MaxRun == 400

\* what a day of a history holds: no entry, an entry of sessions of no
\* seconds, train alone, battle alone, or both
DayKinds == {"absent", "zero", "train", "battle", "both"}

\* the totals of a day of each kind (5 minutes for train, 3 for battle)
KindTotals(k) ==
    [train |-> IF k \in {"train", "both"} THEN 5 * SecsPerMin ELSE 0,
     battle |-> IF k \in {"battle", "both"} THEN 3 * SecsPerMin ELSE 0]

\* per_day for the last StreakWindow days ending today, day today -
\* StreakWindow + i being of kind w[i]
WindowHistory(today, w) ==
    [d \in { today - StreakWindow + i : i \in { j \in 1..StreakWindow : w[j] # "absent" } }
       |-> KindTotals(w[d - today + StreakWindow])]

\* per_day for a run of n days of kind k that ends today
RunHistory(today, n, k) == [d \in (today - n + 1)..today |-> KindTotals(k)]

\* the histories render_all can have aggregated when it calls streak_days:
\* every filling of the last StreakWindow days, and the long runs around
\* StreakCap and up to MaxRun days
Histories(today) ==
    { WindowHistory(today, w) : w \in [1..StreakWindow -> DayKinds] }
    \cup { RunHistory(today, n, k) : n \in (StreakCap - 2)..MaxRun,
                                      k \in {"train", "battle", "both"} }

\* render_all has read the clock and aggregated the entries into one of the
\* histories
InitStreak ==
    /\ clock \in Instants
    /\ files = [n \in FileNames |-> AbsentFile]
    /\ logs = [p \in Partitions |-> <<>>]
    /\ svg = FALSE
    /\ readme = None
    /\ \E h \in Histories(date(clock)) :
         proc = [IdleProc EXCEPT !.pc = "streak_days", !.cmd = "render-readme",
                                 !.rep = Some([per_day |-> h, today |-> date(clock)])]
    /\ last = NoCommand
    /\ ncmds = 1

\* render_all: the three calls of streak_days
StreakDays ==
    /\ proc.pc = "streak_days"
    /\ LET r == unwrap(proc.rep) IN
       proc' = [proc EXCEPT !.pc = "streaks_done",
                            !.rep = Some([per_day |-> r.per_day, today |-> r.today,
                                          streaks |-> streaks(r.per_day, r.today)])]
    /\ UNCHANGED <<clock, files, logs, svg, readme, last, ncmds>>

NextStreak == StreakDays

SpecStreak == InitStreak /\ [][NextStreak]_vars

\* the three streaks have been computed
StreaksDone == proc.pc = "streaks_done"

\* day today - k of the history satisfies the predicate of the streak
DayHolds(r, kind, k) == pred(kind, get_or_default(r.per_day, r.today - k))

\* the number of consecutive days, from today backward, that satisfy the
\* predicate of the streak: the distance of the first day that fails it
RunLength(r, kind) ==
    CHOOSE k \in 0..(MaxRun + 1) :
        /\ ~DayHolds(r, kind, k)
        /\ \A j \in 0..(k - 1) : DayHolds(r, kind, j)

\* C13 as stated: each streak is the number of consecutive days from today
\* backward that satisfy its predicate, for every history.
C13_Original ==
    StreaksDone =>
      \A kind \in StreakKinds :
        unwrap(proc.rep).streaks[kind] = RunLength(unwrap(proc.rep), kind)

\* C13 amended: each streak (any: day total > 0, train: train seconds > 0,
\* battle: battle seconds > 0) is the number of consecutive days from today
\* backward that satisfy its predicate, whenever that number is at most
\* StreakCap; it is never more than that number; it is 0 when today fails the
\* predicate, however active the days before, and 0 for the empty history.
C13_Streaks ==
    StreaksDone =>
      LET r == unwrap(proc.rep) IN
      \A kind \in StreakKinds :
        /\ r.streaks[kind] <= RunLength(r, kind)
        /\ RunLength(r, kind) <= StreakCap => r.streaks[kind] = RunLength(r, kind)
        /\ ~DayHolds(r, kind, 0) => r.streaks[kind] = 0
        /\ r.per_day = <<>> => r.streaks[kind] = 0

\* the streaks of the daily totals [5, 0, 3, 3, 0] minutes ending today have
\* been computed: the any-streak is 0
C13_Witness ==
    /\ StreaksDone
    /\ LET r == unwrap(proc.rep) IN
       /\ [k \in 0..4 |-> total(get_or_default(r.per_day, r.today - k))]
            = (0 :> 0) @@ (1 :> 3 * SecsPerMin) @@ (2 :> 3 * SecsPerMin) @@ (3 :> 0)
              @@ (4 :> 5 * SecsPerMin)
       /\ r.streaks["any"] = 0

\* C14 as stated: streak_days returns at most StreakCap for every history.
C14_Original ==
    StreaksDone => \A kind \in StreakKinds : unwrap(proc.rep).streaks[kind] <= StreakCap

(* ----------------------- a state file not as saved -------------------- *)

\* a start in the state file that is no RFC 3339 timestamp (month 13)
BadStamp ==
    [year |-> EpochYear, month |-> 13, day |-> 1, hour |-> 0, minute |-> 0,
     second |-> 0, sub |-> 0]

\* what the state file can hold for a tag when it was not written by save
\* alone (edited by hand, or written by another version): nothing, a start
\* the clock has shown, or a text that does not parse
EditedStarts == {None, Some(BadStamp)} \cup { Some(iso(t)) : t \in Instants }

\* the state files blazectl can find: complete JSON with any of these starts
\* for each tag, or a text that is not JSON
EditedFiles ==
    { FullFile([train |-> tr, battle |-> ba]) : tr \in EditedStarts, ba \in EditedStarts }
    \cup { [state |-> "partial", data |-> DefaultActive] }

\* the number of commands issued on such a state file
EditedCmds == 2

InitEdited ==
    /\ clock = CHOOSE t \in Instants : \A u \in Instants : t <= u
    /\ files \in { [n \in FileNames |-> IF n = path THEN f ELSE AbsentFile] : f \in EditedFiles }
    /\ logs = [p \in Partitions |-> <<>>]
    /\ svg = FALSE
    /\ readme = None
    /\ proc = IdleProc
    /\ last = NoCommand
    /\ ncmds = MaxCmds - EditedCmds

SpecEdited == InitEdited /\ [][Next]_vars

\* C15 as stated: when start(tag) or stop(tag) ends with an error, the state
\* file holds what it held when the command began and the log has the lines
\* it had then.
C15_Original ==
    [][ (Ends /\ proc.cmd \in {"start", "stop"} /\ last'.code = 1)
        => /\ files'[path] = proc.file0
           /\ TotalLines(logs') = proc.lines0 ]_vars

====
